---- MODULE Spec2Model ----
(***************************************************************************)
(* Model of src/w_handle.c (HAVE_WHANDLE and HAVE_SDL build): the WAD file *)
(* handle, one handle record dispatching nine entry points to the stdio    *)
(* backend or to the SDL_RWops backend.                                    *)
(*                                                                         *)
(* One handle is followed from File_Open to File_Close.  Every backend     *)
(* function is an operator from the handle record h, the heap hp, the      *)
(* stream s and SDL's error text se (plus its arguments and the            *)
(* environment's choices) to a result record that holds the new h, hp, s,  *)
(* se, the returned value and the primitive calls it made.                 *)
(***************************************************************************)
EXTENDS Integers, Sequences, FiniteSets, TLC

VARIABLES
    pc,          \* "start", "open", "closed", "openfailed", "aborted", "undefined"
    kind,        \* the type argument File_Open was called with
    charSigned,  \* whether plain char is signed in this build
    disk,        \* the bytes of the file on disk
    handle,      \* the filehandle_t record
    heap,        \* live allocations: handle record, backend resource, error string
    stream,      \* the backend resource: position and end-of-file indicator
    sdlError,    \* the text SDL_GetError() returns
    op,          \* the last operation performed on the handle
    ret,         \* its integer return value
    retp,        \* its pointer return value
    calls,       \* the backend primitives it called, with their results
    str,         \* the bytes the last GetLine wrote, by buffer index
    num,         \* the length argument of the last GetLine
    closeCalls   \* how many times the backend close primitive ran

vars == <<pc, kind, charSigned, disk, handle, heap, stream, sdlError,
          op, ret, retp, calls, str, num, closeCalls>>

\* ------------------------------------------------------------------ bounds
MaxLen == 2      \* longest file
MaxNum == 3      \* largest GetLine length argument
MaxPos == 3      \* largest stream position a seek may reach
SizeBits == 12   \* width of size_t in the model

ByteSamples == {0, 10, 65, 255}
ErrTexts == {"e1", "e2"}
Offsets == {-1, 0, 1, 2}
NumSamples == (0 - 1)..MaxNum

\* ------------------------------------------------------------- constants
EOF == -1

IsNewLine(b) == b = 10

Kinds == {"FILEHANDLE_STANDARD", "FILEHANDLE_SDL", "FILEHANDLE_UNKNOWN"}
Origins == {"SEEK_SET", "SEEK_CUR", "SEEK_END"}

Min(a, b) == IF a < b THEN a ELSE b

\* conversion of an int to size_t
ToSizeT(n) == n % (2 ^ SizeBits)

\* conversion of a byte held in a plain char to int
CharToInt(b) == IF charSigned /\ b >= 128 THEN b - 256 ELSE b

Files == UNION {[1..n -> ByteSamples] : n \in 0..MaxLen}

EmptyBuf == [i \in {} |-> 0]

NoHandle ==
    [type |-> "none", read |-> "NULL", seek |-> "NULL", tell |-> "NULL",
     size |-> "NULL", getchar |-> "NULL", getstring |-> "NULL",
     close |-> "NULL", error |-> "NULL", eof |-> "NULL",
     file |-> "NULL", lasterror |-> "NULL"]

EmptyHeap == [handle |-> 0, file |-> 0, lasterror |-> 0]

\* the result of a backend function that changed nothing and returned 0
Res(h, hp, s, se) ==
    [h |-> h, hp |-> hp, s |-> s, se |-> se, ret |-> 0, retp |-> "NULL",
     calls |-> <<>>, str |-> EmptyBuf]

Call(fn, r) == [fn |-> fn, r |-> r]

\* ------------------------------------------------------- stdio primitives
\* fread: bytes consumed and elements returned; a short read sets the
\* end-of-file indicator
fread(s, size, count) ==
    LET want == size * count
        avail == IF s.pos < Len(disk) THEN Len(disk) - s.pos ELSE 0
        got == Min(want, avail)
    IN  [s |-> [s EXCEPT !.pos = s.pos + got,
                         !.eof = IF got < want THEN TRUE ELSE s.eof],
         r |-> got \div size]

SeekTarget(s, offset, origin) ==
    CASE origin = "SEEK_SET" -> offset
      [] origin = "SEEK_CUR" -> s.pos + offset
      [] origin = "SEEK_END" -> Len(disk) + offset

\* fseek: fails on a negative target, otherwise moves and clears end-of-file
fseek(s, offset, origin) ==
    LET np == SeekTarget(s, offset, origin)
    IN  IF np < 0 THEN [s |-> s, r |-> -1]
        ELSE [s |-> [s EXCEPT !.pos = np, !.eof = FALSE], r |-> 0]

ftell(s) == s.pos

fgetc(s) ==
    IF s.pos < Len(disk)
    THEN [s |-> [s EXCEPT !.pos = s.pos + 1], r |-> disk[s.pos + 1]]
    ELSE [s |-> [s EXCEPT !.eof = TRUE], r |-> EOF]

\* number of bytes fgets takes: at most n-1, stopping after a newline
LineLen(s, n) ==
    LET avail == IF s.pos < Len(disk) THEN Min(n - 1, Len(disk) - s.pos) ELSE 0
        nl == {k \in 1..avail : IsNewLine(disk[s.pos + k])}
    IN  IF nl = {} THEN avail ELSE CHOOSE k \in nl : \A j \in nl : k <= j

\* fgets: NULL and no write for n <= 0 or at end of file; else the bytes
\* followed by a terminator
fgets(s, n) ==
    IF n <= 0 THEN [s |-> s, buf |-> EmptyBuf, r |-> "NULL"]
    ELSE IF n = 1 THEN [s |-> s, buf |-> [i \in {0} |-> 0], r |-> "str"]
    ELSE LET k == LineLen(s, n)
             hitEnd == k < n - 1 /\ (k = 0 \/ ~IsNewLine(disk[s.pos + k]))
             s2 == [s EXCEPT !.pos = s.pos + k,
                             !.eof = IF hitEnd THEN TRUE ELSE s.eof]
         IN  IF k = 0 THEN [s |-> s2, buf |-> EmptyBuf, r |-> "NULL"]
             ELSE [s |-> s2,
                   buf |-> [i \in 0..k |-> IF i < k THEN disk[s.pos + i + 1] ELSE 0],
                   r |-> "str"]

\* ------------------------------------------------------------ size helper
\* the size helper without the seek back to the saved position
File_StandardSizeImpl_NoRestore(s) ==
    LET s1 == fseek(s, 0, "SEEK_END").s
    IN  [s |-> s1, r |-> ToSizeT(ftell(s1))]

File_StandardSizeImpl(s) ==
    LET cur == ToSizeT(ftell(s))
        s1 == fseek(s, 0, "SEEK_END").s
        length == ToSizeT(ftell(s1))
        s2 == fseek(s1, cur, "SEEK_SET").s
    IN  [s |-> s2, r |-> length]

\* --------------------------------------------------------- stdio backend
File_StandardRead(h, hp, s, se, size, count) ==
    LET f == fread(s, size, count)
    IN  [Res(h, hp, f.s, se) EXCEPT !.ret = f.r, !.calls = <<Call("fread", f.r)>>]

File_StandardSeek(h, hp, s, se, offset, origin) ==
    LET f == fseek(s, offset, origin)
    IN  [Res(h, hp, f.s, se) EXCEPT !.ret = f.r, !.calls = <<Call("fseek", f.r)>>]

File_StandardTell(h, hp, s, se) ==
    [Res(h, hp, s, se) EXCEPT !.ret = ftell(s), !.calls = <<Call("ftell", ftell(s))>>]

File_StandardSize(h, hp, s, se) ==
    LET f == File_StandardSizeImpl(s)
    IN  [Res(h, hp, f.s, se) EXCEPT !.ret = f.r,
                                    !.calls = <<Call("File_StandardSizeImpl", f.r)>>]

File_StandardGetChar(h, hp, s, se) ==
    LET f == fgetc(s)
    IN  [Res(h, hp, f.s, se) EXCEPT !.ret = f.r, !.calls = <<Call("fgetc", f.r)>>]

File_StandardGetString(h, hp, s, se, n) ==
    LET f == fgets(s, n)
    IN  [Res(h, hp, f.s, se) EXCEPT !.retp = f.r, !.str = f.buf,
                                    !.calls = <<Call("fgets", Cardinality(DOMAIN f.buf))>>]

\* fclose releases the FILE whatever status it reports
File_StandardClose(h, hp, s, se, status) ==
    [Res(h, [hp EXCEPT !.file = 0], s, se) EXCEPT
        !.ret = IF status = 0 THEN 0 ELSE EOF,
        !.calls = <<Call("fclose", IF status = 0 THEN 0 ELSE EOF)>>]

File_StandardError(h, hp, s, se) ==
    [Res(h, hp, s, se) EXCEPT !.retp = "M_FileError"]

File_StandardEOF(h, hp, s, se) ==
    [Res(h, hp, s, se) EXCEPT !.ret = IF s.eof THEN 1 ELSE 0,
                              !.calls = <<Call("feof", IF s.eof THEN 1 ELSE 0)>>]

\* ----------------------------------------------------- SDL_RWops primitives
\* Each primitive may fail (fail), and a failing primitive leaves the text e
\* as SDL's error.
SDL_RWread(s, se, size, count, fail, e) ==
    LET want == size * count
        avail == IF s.pos < Len(disk) THEN Len(disk) - s.pos ELSE 0
        got == Min(want, avail)
    IN  IF fail THEN [s |-> s, se |-> e, r |-> 0, from |-> s.pos]
        ELSE [s |-> [s EXCEPT !.pos = s.pos + got], se |-> se,
              r |-> got \div size, from |-> s.pos]

SDL_RWseek(s, se, offset, type, fail, e) ==
    LET np == SeekTarget(s, offset, type)
    IN  IF fail \/ np < 0 THEN [s |-> s, se |-> e, r |-> -1]
        ELSE [s |-> [s EXCEPT !.pos = np], se |-> se, r |-> np]

SDL_RWtell(s, se, fail, e) ==
    IF fail THEN [se |-> e, r |-> -1] ELSE [se |-> se, r |-> s.pos]

SDL_RWsize(s, se, fail, e) ==
    IF fail THEN [se |-> e, r |-> -1] ELSE [se |-> se, r |-> Len(disk)]

\* ------------------------------------------------------------ SDL backend
\* copy SDL_GetError() into a fresh string, releasing the previous one
File_SDLSetError(h, hp, se) ==
    [h |-> [h EXCEPT !.lasterror = se],
     hp |-> [hp EXCEPT !.lasterror =
                (IF h.lasterror # "NULL" THEN @ - 1 ELSE @) + 1]]

File_SDLRead(h, hp, s, se, size, count, env) ==
    LET p == SDL_RWread(s, se, size, count, env.f1, env.e)
        x == File_SDLSetError(h, hp, p.se)
    IN  [Res(x.h, x.hp, p.s, p.se) EXCEPT !.ret = p.r,
                                         !.calls = <<Call("SDL_RWread", p.r)>>]

File_SDLSeek(h, hp, s, se, offset, origin, env) ==
    LET type == IF origin = "SEEK_CUR" THEN "SEEK_CUR"
                ELSE IF origin = "SEEK_END" THEN "SEEK_END" ELSE "SEEK_SET"
        p == SDL_RWseek(s, se, offset, type, env.f1, env.e)
        x == File_SDLSetError(h, hp, p.se)
    IN  [Res(x.h, x.hp, p.s, p.se) EXCEPT !.ret = IF p.r = -1 THEN -1 ELSE 0,
                                         !.calls = <<Call("SDL_RWseek", p.r)>>]

File_SDLTell(h, hp, s, se, env) ==
    LET p == SDL_RWtell(s, se, env.f1, env.e)
        x == File_SDLSetError(h, hp, p.se)
    IN  [Res(x.h, x.hp, s, p.se) EXCEPT !.ret = p.r,
                                       !.calls = <<Call("SDL_RWtell", p.r)>>]

File_SDLSize(h, hp, s, se, env) ==
    LET p == SDL_RWsize(s, se, env.f1, env.e)
        x == File_SDLSetError(h, hp, p.se)
    IN  [Res(x.h, x.hp, s, p.se) EXCEPT !.ret = ToSizeT(p.r),
                                       !.calls = <<Call("SDL_RWsize", p.r)>>]

File_SDLGetChar(h, hp, s, se, env) ==
    LET p == SDL_RWread(s, se, 1, 1, env.f1, env.e)
        x == File_SDLSetError(h, hp, p.se)
    IN  IF p.r = 0
        THEN [Res(x.h, x.hp, p.s, p.se) EXCEPT !.ret = EOF,
                                             !.calls = <<Call("SDL_RWread", p.r)>>]
        ELSE [Res(h, hp, p.s, p.se) EXCEPT !.ret = CharToInt(disk[p.from + 1]),
                                         !.calls = <<Call("SDL_RWread", p.r)>>]

File_SDLGetString(h, hp, s, se, n, env) ==
    LET p == SDL_RWread(s, se, 1, ToSizeT(n - 1), env.f1, env.e)
        x == File_SDLSetError(h, hp, p.se)
    IN  IF p.r = 0
        THEN [Res(x.h, x.hp, p.s, p.se) EXCEPT !.retp = "NULL",
                                             !.calls = <<Call("SDL_RWread", p.r)>>]
        ELSE [Res(h, hp, p.s, p.se) EXCEPT
                 !.retp = "str",
                 !.str = [i \in (0..(p.r - 1)) \cup {n - 1} |->
                             IF i = n - 1 THEN 0 ELSE disk[p.from + i + 1]],
                 !.calls = <<Call("SDL_RWread", p.r)>>]

\* SDL_RWclose releases the SDL_RWops whatever status it reports
File_SDLClose(h, hp, s, se, status) ==
    [Res(h, [hp EXCEPT !.file = 0], s, se) EXCEPT
        !.ret = IF status = 0 THEN 0 ELSE -1,
        !.calls = <<Call("SDL_RWclose", IF status = 0 THEN 0 ELSE -1)>>]

File_SDLError(h, hp, s, se) ==
    [Res(h, hp, s, se) EXCEPT !.retp = h.lasterror]

\* the end-of-stream test with position > filesize in place of >=
File_SDLEOF_Strict(h, hp, s, se, env) ==
    LET sz == SDL_RWsize(s, se, env.f1, env.e)
        x == File_SDLSetError(h, hp, sz.se)
        tl == SDL_RWtell(s, sz.se, env.f2, env.e)
    IN  IF sz.r < 0
        THEN [Res(x.h, x.hp, s, sz.se) EXCEPT !.ret = 1,
                                            !.calls = <<Call("SDL_RWsize", sz.r)>>]
        ELSE [Res(h, hp, s, tl.se) EXCEPT
                 !.ret = IF tl.r = -1 THEN 1 ELSE IF tl.r > sz.r THEN 1 ELSE 0,
                 !.calls = <<Call("SDL_RWsize", sz.r), Call("SDL_RWtell", tl.r)>>]

File_SDLEOF(h, hp, s, se, env) ==
    LET sz == SDL_RWsize(s, se, env.f1, env.e)
        x == File_SDLSetError(h, hp, sz.se)
        tl == SDL_RWtell(s, sz.se, env.f2, env.e)
    IN  IF sz.r < 0
        THEN [Res(x.h, x.hp, s, sz.se) EXCEPT !.ret = 1,
                                            !.calls = <<Call("SDL_RWsize", sz.r)>>]
        ELSE [Res(h, hp, s, tl.se) EXCEPT
                 !.ret = IF tl.r = -1 THEN 1 ELSE IF tl.r >= sz.r THEN 1 ELSE 0,
                 !.calls = <<Call("SDL_RWsize", sz.r), Call("SDL_RWtell", tl.r)>>]

\* ------------------------------------------------------- handle / dispatch
\* the nine entry points File_Open binds for each backend
StandardOps ==
    [read |-> "File_StandardRead", seek |-> "File_StandardSeek",
     tell |-> "File_StandardTell", size |-> "File_StandardSize",
     getchar |-> "File_StandardGetChar", getstring |-> "File_StandardGetString",
     close |-> "File_StandardClose", error |-> "File_StandardError",
     eof |-> "File_StandardEOF"]

Bind(h, ops, file) ==
    [f \in DOMAIN h |-> IF f \in DOMAIN ops THEN ops[f]
                        ELSE IF f = "file" THEN file ELSE h[f]]

\* the SDL binding with the stdio end-of-file entry left in it
SDLOps_Mixed ==
    [read |-> "File_SDLRead", seek |-> "File_SDLSeek",
     tell |-> "File_SDLTell", size |-> "File_SDLSize",
     getchar |-> "File_SDLGetChar", getstring |-> "File_SDLGetString",
     close |-> "File_SDLClose", error |-> "File_SDLError",
     eof |-> "File_StandardEOF"]

SDLOps ==
    [read |-> "File_SDLRead", seek |-> "File_SDLSeek",
     tell |-> "File_SDLTell", size |-> "File_SDLSize",
     getchar |-> "File_SDLGetChar", getstring |-> "File_SDLGetString",
     close |-> "File_SDLClose", error |-> "File_SDLError",
     eof |-> "File_SDLEOF"]

\* File_Open returning NULL without free(handle)
File_Open_NoFree(type, found) ==
    LET hp0 == [EmptyHeap EXCEPT !.handle = 1]
        h0 == [NoHandle EXCEPT !.type = type]
        file == IF ~found THEN "NULL"
                ELSE IF type = "FILEHANDLE_STANDARD" THEN "FILE" ELSE "SDL_RWops"
        hp1 == [hp0 EXCEPT !.file = IF found THEN 1 ELSE 0]
        h1 == IF type = "FILEHANDLE_STANDARD" THEN Bind(h0, StandardOps, file)
              ELSE Bind(h0, SDLOps, file)
    IN  IF type \notin {"FILEHANDLE_STANDARD", "FILEHANDLE_SDL"}
        THEN [pc |-> "aborted", h |-> h0, hp |-> hp0, retp |-> "NULL"]
        ELSE IF h1.file = "NULL"
        THEN [pc |-> "openfailed", h |-> NoHandle, hp |-> hp1, retp |-> "NULL"]
        ELSE [pc |-> "open", h |-> h1, hp |-> hp1, retp |-> "handle"]

\* File_Open without the final else: an unknown type leaves handle->file
\* NULL and falls into the file-not-found return
File_Open_NoAbort(type, found) ==
    LET hp0 == [EmptyHeap EXCEPT !.handle = 1]
        h0 == [NoHandle EXCEPT !.type = type]
        known == type \in {"FILEHANDLE_STANDARD", "FILEHANDLE_SDL"}
        file == IF ~found \/ ~known THEN "NULL"
                ELSE IF type = "FILEHANDLE_STANDARD" THEN "FILE" ELSE "SDL_RWops"
        hp1 == [hp0 EXCEPT !.file = IF file # "NULL" THEN 1 ELSE 0]
        h1 == IF type = "FILEHANDLE_STANDARD" THEN Bind(h0, StandardOps, file)
              ELSE IF type = "FILEHANDLE_SDL" THEN Bind(h0, SDLOps, file)
              ELSE h0
    IN  IF h1.file = "NULL"
        THEN [pc |-> "openfailed", h |-> NoHandle,
              hp |-> [hp1 EXCEPT !.handle = @ - 1], retp |-> "NULL"]
        ELSE [pc |-> "open", h |-> h1, hp |-> hp1, retp |-> "handle"]

\* File_Open: found says whether the backend open primitive finds the file.
\* The result's pc is "open" (the handle is returned), "openfailed" (NULL is
\* returned) or "aborted" (I_Error does not return).
File_Open(type, found) ==
    LET hp0 == [EmptyHeap EXCEPT !.handle = 1]
        h0 == [NoHandle EXCEPT !.type = type]
        file == IF ~found THEN "NULL"
                ELSE IF type = "FILEHANDLE_STANDARD" THEN "FILE" ELSE "SDL_RWops"
        hp1 == [hp0 EXCEPT !.file = IF found THEN 1 ELSE 0]
        h1 == IF type = "FILEHANDLE_STANDARD" THEN Bind(h0, StandardOps, file)
              ELSE Bind(h0, SDLOps, file)
    IN  IF type \notin {"FILEHANDLE_STANDARD", "FILEHANDLE_SDL"}
        THEN [pc |-> "aborted", h |-> h0, hp |-> hp0, retp |-> "NULL"]
        ELSE IF h1.file = "NULL"
        THEN [pc |-> "openfailed", h |-> NoHandle,
              hp |-> [hp1 EXCEPT !.handle = @ - 1], retp |-> "NULL"]
        ELSE [pc |-> "open", h |-> h1, hp |-> hp1, retp |-> "handle"]

IsCloseCall(c) == c.fn \in {"fclose", "SDL_RWclose"}

\* handle->close(handle->file)
CallClose(h, hp, s, se, status) ==
    CASE h.close = "File_StandardClose" -> File_StandardClose(h, hp, s, se, status)
      [] h.close = "File_SDLClose" -> File_SDLClose(h, hp, s, se, status)

\* File_Close without the release of the cached error string
File_Close_LeakError(h, hp, s, se, status) ==
    LET c == CallClose(h, hp, s, se, status)
        hp2 == [c.hp EXCEPT !.handle = @ - 1]
    IN  [c EXCEPT !.h = NoHandle, !.hp = hp2, !.ret = c.ret,
                  !.calls = c.calls \o <<Call("free(handle)", 0)>>]

File_Close(h, hp, s, se, status) ==
    LET c == CallClose(h, hp, s, se, status)
        hp1 == IF h.lasterror # "NULL"
               THEN [c.hp EXCEPT !.lasterror = @ - 1] ELSE c.hp
        hp2 == [hp1 EXCEPT !.handle = @ - 1]
        frees == (IF h.lasterror # "NULL"
                  THEN <<Call("free(handle->lasterror)", 0)>> ELSE <<>>)
                 \o <<Call("free(handle)", 0)>>
    IN  [c EXCEPT !.h = NoHandle, !.hp = hp2, !.ret = c.ret,
                  !.calls = c.calls \o frees]

CallRead(h, hp, s, se, size, count, env) ==
    CASE h.read = "File_StandardRead" -> File_StandardRead(h, hp, s, se, size, count)
      [] h.read = "File_SDLRead" -> File_SDLRead(h, hp, s, se, size, count, env)

CallSeek(h, hp, s, se, offset, origin, env) ==
    CASE h.seek = "File_StandardSeek" -> File_StandardSeek(h, hp, s, se, offset, origin)
      [] h.seek = "File_SDLSeek" -> File_SDLSeek(h, hp, s, se, offset, origin, env)

CallTell(h, hp, s, se, env) ==
    CASE h.tell = "File_StandardTell" -> File_StandardTell(h, hp, s, se)
      [] h.tell = "File_SDLTell" -> File_SDLTell(h, hp, s, se, env)

CallSize(h, hp, s, se, env) ==
    CASE h.size = "File_StandardSize" -> File_StandardSize(h, hp, s, se)
      [] h.size = "File_SDLSize" -> File_SDLSize(h, hp, s, se, env)

CallGetChar(h, hp, s, se, env) ==
    CASE h.getchar = "File_StandardGetChar" -> File_StandardGetChar(h, hp, s, se)
      [] h.getchar = "File_SDLGetChar" -> File_SDLGetChar(h, hp, s, se, env)

CallGetString(h, hp, s, se, n, env) ==
    CASE h.getstring = "File_StandardGetString" -> File_StandardGetString(h, hp, s, se, n)
      [] h.getstring = "File_SDLGetString" -> File_SDLGetString(h, hp, s, se, n, env)

CallError(h, hp, s, se) ==
    CASE h.error = "File_StandardError" -> File_StandardError(h, hp, s, se)
      [] h.error = "File_SDLError" -> File_SDLError(h, hp, s, se)

CallEOF(h, hp, s, se, env) ==
    CASE h.eof = "File_StandardEOF" -> File_StandardEOF(h, hp, s, se)
      [] h.eof = "File_SDLEOF" -> File_SDLEOF(h, hp, s, se, env)

\* ----------------------------------------------------------------- actions
\* the environment's choices during one call: whether the first and the
\* second SDL primitive fail, and the error text a failure leaves
Envs == [f1 : BOOLEAN, f2 : {FALSE}, e : ErrTexts]
Envs2 == [f1 : BOOLEAN, f2 : BOOLEAN, e : ErrTexts]

\* a write outside the caller's buffer of n bytes is undefined behaviour
InBounds(buf, n) == \A i \in DOMAIN buf : 0 <= i /\ i < n

Apply(name, r, n, nextpc) ==
    /\ pc' = nextpc
    /\ op' = name
    /\ handle' = r.h
    /\ heap' = r.hp
    /\ stream' = r.s
    /\ sdlError' = r.se
    /\ ret' = r.ret
    /\ retp' = r.retp
    /\ calls' = r.calls
    /\ str' = r.str
    /\ num' = n
    /\ UNCHANGED <<kind, charSigned, disk>>

Init ==
    /\ pc = "start"
    /\ kind = "none"
    /\ charSigned \in BOOLEAN
    /\ disk \in Files
    /\ handle = NoHandle
    /\ heap = EmptyHeap
    /\ stream = [pos |-> 0, eof |-> FALSE]
    /\ sdlError = ""
    /\ op = "none"
    /\ ret = 0
    /\ retp = "NULL"
    /\ calls = <<>>
    /\ str = EmptyBuf
    /\ num = 0
    /\ closeCalls = 0

Open ==
    /\ pc = "start"
    /\ \E type \in Kinds, found \in BOOLEAN :
          LET r == File_Open(type, found)
          IN  /\ pc' = r.pc
              /\ kind' = type
              /\ handle' = r.h
              /\ heap' = r.hp
              /\ retp' = r.retp
              /\ op' = "Open"
    /\ UNCHANGED <<charSigned, disk, stream, sdlError, ret, calls, str, num, closeCalls>>

Close ==
    /\ pc = "open"
    /\ \E status \in {0, 1} :
          LET r == File_Close(handle, heap, stream, sdlError, status)
          IN  /\ Apply("Close", r, 0, "closed")
              /\ closeCalls' = closeCalls + Len(SelectSeq(r.calls, IsCloseCall))

Read ==
    /\ pc = "open"
    /\ \E size \in {1, 2}, count \in 0..MaxLen, env \in Envs :
          Apply("Read", CallRead(handle, heap, stream, sdlError, size, count, env), 0, "open")
    /\ UNCHANGED closeCalls

Seek ==
    /\ pc = "open"
    /\ \E offset \in Offsets, origin \in Origins, env \in Envs :
          /\ SeekTarget(stream, offset, origin) <= MaxPos
          /\ Apply("Seek", CallSeek(handle, heap, stream, sdlError, offset, origin, env),
                   0, "open")
    /\ UNCHANGED closeCalls

Tell ==
    /\ pc = "open"
    /\ \E env \in Envs :
          Apply("Tell", CallTell(handle, heap, stream, sdlError, env), 0, "open")
    /\ UNCHANGED closeCalls

Size ==
    /\ pc = "open"
    /\ \E env \in Envs :
          Apply("Size", CallSize(handle, heap, stream, sdlError, env), 0, "open")
    /\ UNCHANGED closeCalls

GetChar ==
    /\ pc = "open"
    /\ \E env \in Envs :
          Apply("GetChar", CallGetChar(handle, heap, stream, sdlError, env), 0, "open")
    /\ UNCHANGED closeCalls

GetLine ==
    /\ pc = "open"
    /\ \E n \in NumSamples, env \in Envs :
          LET r == CallGetString(handle, heap, stream, sdlError, n, env)
          IN  Apply("GetLine", r, n, IF InBounds(r.str, n) THEN "open" ELSE "undefined")
    /\ UNCHANGED closeCalls

IsEndOfStream ==
    /\ pc = "open"
    /\ \E env \in Envs2 :
          Apply("IsEndOfStream", CallEOF(handle, heap, stream, sdlError, env), 0, "open")
    /\ UNCHANGED closeCalls

LastErrorMessage ==
    /\ pc = "open"
    /\ Apply("LastErrorMessage", CallError(handle, heap, stream, sdlError), 0, "open")
    /\ UNCHANGED closeCalls

Next ==
    \/ Open
    \/ Close
    \/ Read
    \/ Seek
    \/ Tell
    \/ Size
    \/ GetChar
    \/ GetLine
    \/ IsEndOfStream
    \/ LastErrorMessage

Spec == Init /\ [][Next]_vars

\* ------------------------------------------------------------ properties
IsSDL == kind = "FILEHANDLE_SDL"
IsStandard == kind = "FILEHANDLE_STANDARD"

\* C1: when the backend open primitive fails, for either backend, File_Open
\* returns NULL and nothing it allocated (handle record, backend resource,
\* error string) is still live.
C1_FailedOpenLeavesNothing ==
    pc = "openfailed" =>
        /\ retp = "NULL"
        /\ heap.handle = 0 /\ heap.file = 0 /\ heap.lasterror = 0

C1_Witness == pc = "openfailed" /\ IsSDL /\ op = "Open"

\* C2: after any sequence of operations, one File_Close has called the
\* backend close exactly once, has released the cached error string and the
\* handle record (also when the backend close reported failure), and has
\* returned the backend close's status.
C2_CloseReleasesAll ==
    pc = "closed" =>
        /\ closeCalls = 1
        /\ IsCloseCall(calls[1]) /\ ret = calls[1].r
        /\ heap.handle = 0 /\ heap.file = 0 /\ heap.lasterror = 0

C2_Witness ==
    /\ pc = "closed" /\ IsSDL /\ ret # 0
    /\ \E i \in 1..Len(calls) : calls[i].fn = "free(handle->lasterror)"

\* C3 (as claimed): for both backends and every length argument, GetLine
\* writes only buffer indices 0..num-1, and on success a terminator below
\* num ends the returned bytes.
C3_GetLineStaysInBuffer ==
    op = "GetLine" =>
        /\ \A i \in DOMAIN str : 0 <= i /\ i < num
        /\ retp = "str" =>
              \E i \in DOMAIN str :
                 /\ i < num /\ str[i] = 0
                 /\ \A j \in 0..(i - 1) : j \in DOMAIN str

\* C4: on the SDL backend File_SDLEOF returns 0 when the size and the tell
\* primitives both succeed and position < size, and 1 when position >= size
\* or either primitive fails.
C4_SizeOk == Len(calls) >= 1 /\ calls[1].fn = "SDL_RWsize" /\ calls[1].r >= 0
C4_TellOk == Len(calls) = 2 /\ calls[2].fn = "SDL_RWtell" /\ calls[2].r # -1

C4_EndOfStream ==
    (pc = "open" /\ IsSDL /\ op = "IsEndOfStream") =>
        IF C4_SizeOk /\ C4_TellOk /\ stream.pos < Len(disk)
        THEN ret = 0 ELSE ret = 1

C4_Witness ==
    /\ pc = "open" /\ IsSDL /\ op = "IsEndOfStream"
    /\ C4_SizeOk /\ C4_TellOk
    /\ Len(disk) > 0 /\ stream.pos = Len(disk) /\ ret = 1

\* C5: File_Open with a type that is no known backend ends in I_Error: it
\* returns neither a handle nor NULL.
C5_UnknownKindAborts ==
    (op = "Open" /\ ~IsSDL /\ ~IsStandard) => pc = "aborted"

C5_Witness == pc = "aborted" /\ kind = "FILEHANDLE_UNKNOWN"

\* C6: on the stdio backend Size returns the length of the file and leaves
\* the position where it was.
C6_SizeKeepsPosition ==
    [][(pc = "open" /\ IsStandard /\ pc' = "open" /\ op' = "Size") =>
          (ret' = Len(disk) /\ stream'.pos = stream.pos)]_vars

C6_Witness ==
    /\ pc = "open" /\ IsStandard /\ op = "Size"
    /\ stream.pos > 0 /\ stream.pos < Len(disk) /\ ret = Len(disk)

\* C7 (as claimed): on the SDL backend every call (Read, Seek, Tell, Size,
\* GetChar, GetLine, IsEndOfStream), succeeding or not, leaves lasterror
\* holding SDL's error text as it is at the end of the call, the previous
\* string released.
C7_LastErrorFollowsEveryCall ==
    (pc = "open" /\ IsSDL /\ op \in {"Read", "Seek", "Tell", "Size", "GetChar",
                                     "GetLine", "IsEndOfStream"}) =>
        /\ handle.lasterror = sdlError
        /\ heap.lasterror = 1

\* C8 (as claimed): on the SDL backend GetLine asks the primitive read for
\* num-1 bytes; a read of fewer bytes yields NULL with lasterror refreshed,
\* and only a read of all num-1 bytes yields the buffer, terminated at num-1.
C8_ShortReadFails ==
    (pc = "open" /\ IsSDL /\ op = "GetLine") =>
        /\ calls[1].fn = "SDL_RWread"
        /\ calls[1].r < ToSizeT(num - 1) => retp = "NULL"
        /\ retp = "NULL" => handle.lasterror = sdlError
        /\ retp = "str" =>
              /\ calls[1].r = ToSizeT(num - 1)
              /\ (num - 1) \in DOMAIN str /\ str[num - 1] = 0

\* C9 (as claimed): on the SDL backend GetChar returns EOF exactly when the
\* one-byte read came up short; a byte that was read is returned as its
\* value 0..255, which is not EOF.
C9_GetCharSentinel ==
    (pc = "open" /\ IsSDL /\ op = "GetChar") =>
        /\ (ret = EOF) <=> (calls[1].r < 1)
        /\ calls[1].r = 1 => (ret = disk[stream.pos] /\ ret # EOF)

\* C10: while the handle is live its type is the one given to File_Open and
\* its nine entry points are those of that backend.
C10_Entries == {"read", "seek", "tell", "size", "getchar", "getstring",
                "close", "error", "eof"}

C10_Suffix ==
    [read |-> "Read", seek |-> "Seek", tell |-> "Tell", size |-> "Size",
     getchar |-> "GetChar", getstring |-> "GetString", close |-> "Close",
     error |-> "Error", eof |-> "EOF"]

C10_EntriesMatchKind ==
    pc \in {"open", "undefined"} =>
        /\ handle.type = kind
        /\ kind \in {"FILEHANDLE_STANDARD", "FILEHANDLE_SDL"}
        /\ \A f \in C10_Entries :
              handle[f] = (IF IsStandard THEN "File_Standard" ELSE "File_SDL")
                          \o C10_Suffix[f]

C10_Witness ==
    /\ pc = "open" /\ IsSDL /\ op = "IsEndOfStream"
    /\ handle.lasterror \in ErrTexts /\ stream.pos > 0

====
